---- MODULE Spec2Model ----
(***************************************************************************)
(* Model of internal/cli/options.go: the Options struct of the            *)
(* shallow-fetch-sha command line, its binding operations (BindArgs,      *)
(* BindFlags, SetStorageMode), its validation (Validate) and the          *)
(* resolution of the authentication method (Auth).                         *)
(*                                                                         *)
(* Go strings that the code inspects character by character (Repo, SHA)   *)
(* are sequences of one-character strings; strings the code only compares *)
(* with "" are TLA+ strings.  A nil pointer or nil interface is Nil.       *)
(***************************************************************************)
EXTENDS Integers, Sequences, FiniteSets, TLC

VARIABLES opts, call, ret, initialized

vars == <<opts, call, ret, initialized>>

(***************************************************************************)
(* Bounds and program constants                                            *)
(***************************************************************************)
\* longest positional argument list handed to BindArgs
MaxArgs == 3

\* len(opts.SHA) != 40
ShaLen == 40

FileSystemStorageMode == "fs"
MemoryStorageMode == "mem"
GitDirName == ".git"

Nil == [nil |-> TRUE]

(***************************************************************************)
(* Characters                                                              *)
(***************************************************************************)
\* code point of the characters the inputs are built from
Ord(c) ==
  CASE c = "\n" -> 10
    [] c = "%" -> 37
    [] c = "/" -> 47
    [] c = "0" -> 48
    [] c = "1" -> 49
    [] c = "9" -> 57
    [] c = ":" -> 58
    [] c = "@" -> 64
    [] c = "A" -> 65
    [] c = "F" -> 70
    [] c = "G" -> 71
    [] c = "a" -> 97
    [] c = "f" -> 102
    [] c = "g" -> 103
    [] c = "h" -> 104
    [] c = "r" -> 114
    [] c = "s" -> 115
    [] c = "z" -> 122

Fill(n, c) == [i \in 1..n |-> c]

WithAt(s, p, d) == [s EXCEPT ![p] = d]

\* a plausible slip: the lower-case range one letter too wide
InHexClassWide(c) ==
  \/ Ord(c) \in Ord("0")..Ord("9")
  \/ Ord(c) \in Ord("a")..Ord("g")
  \/ Ord(c) \in Ord("A")..Ord("F")

\* character class [0-9a-fA-F]
InHexClass(c) ==
  \/ Ord(c) \in Ord("0")..Ord("9")
  \/ Ord(c) \in Ord("a")..Ord("f")
  \/ Ord(c) \in Ord("A")..Ord("F")

\* regHex.MatchString: ^[0-9a-fA-F]+$ ; without the m flag $ is the end of text
regHexMatchString(s) ==
  /\ Len(s) >= 1
  /\ \A i \in 1..Len(s) : InHexClass(s[i])

(***************************************************************************)
(* Errors and results                                                      *)
(***************************************************************************)
NilErr == [kind |-> "nil"]

invalid(key, msg) == [kind |-> "invalid", key |-> key, msg |-> msg]

ErrorsNew(msg) == [kind |-> "error", msg |-> msg]

NilMethod == [kind |-> "nil"]

Result(err) == [err |-> err, method |-> NilMethod, panic |-> FALSE]

(***************************************************************************)
(* Options.Validate                                                        *)
(***************************************************************************)
\* a plausible slip: the comparisons inverted
BothAuthSetInverted(o) == o.BasicAuth = Nil /\ o.SSHAuth = Nil

BothAuthSet(o) == o.BasicAuth # Nil /\ o.SSHAuth # Nil

\* a plausible slip: the username test pasted into the password test
PasswordMissingPasted(o) == o.BasicAuth.Username = ""

PasswordMissing(o) == o.BasicAuth.Password = ""

Validate(o) ==
  IF o.Repo = <<>>
    THEN invalid("repo", "it is required")
  ELSE IF Len(o.SHA) # ShaLen \/ ~regHexMatchString(o.SHA)
    THEN invalid("sha", "must be full 40 hexadecimal character SHA1")
  ELSE IF BothAuthSet(o)
    THEN ErrorsNew("cannot specify both basic auth and ssh auth options")
  ELSE IF o.BasicAuth # Nil /\ o.BasicAuth.Username = ""
    THEN invalid("username", "required if password specified")
  ELSE IF o.BasicAuth # Nil /\ PasswordMissing(o)
    THEN invalid("password", "required if username specified")
  ELSE IF o.SSHAuth # Nil /\ o.SSHAuth.PEMPath = ""
    THEN invalid("key-path", "required if ssh options set")
  ELSE IF o.worktree = Nil \/ o.storage = Nil
    THEN ErrorsNew("filesystem storage not initalized")
  ELSE NilErr

(***************************************************************************)
(* Options.BindArgs                                                        *)
(***************************************************************************)
\* a plausible slip: only too few arguments are refused
BindArgsAtLeastTwo(o, args) ==
  IF Len(args) < 2
    THEN [opts |-> o,
          err |-> ErrorsNew("missing arguments: must specify both repo and sha arguments")]
    ELSE [opts |-> [o EXCEPT !.Repo = args[1], !.SHA = args[2]], err |-> NilErr]

BindArgs(o, args) ==
  IF Len(args) # 2
    THEN [opts |-> o,
          err |-> ErrorsNew("missing arguments: must specify both repo and sha arguments")]
    ELSE [opts |-> [o EXCEPT !.Repo = args[1], !.SHA = args[2]], err |-> NilErr]

(***************************************************************************)
(* Options.BindFlags                                                       *)
(***************************************************************************)
\* the flags in the order BindFlags reads them
FlagNames == <<"directory", "username", "password", "key-path", "key-passphrase", "rm-dotgit">>

\* flags.GetString / flags.GetBool fail for a flag the FlagSet does not define
FlagErr(name) == [kind |-> "flag", name |-> name]

BasicOrNew(o) == IF o.BasicAuth = Nil THEN [Username |-> "", Password |-> ""] ELSE o.BasicAuth

SSHOrNew(o) == IF o.SSHAuth = Nil THEN [PEMPath |-> "", Passphrase |-> ""] ELSE o.SSHAuth

BindDirectory(o, dir) == [o EXCEPT !.Directory = dir]

\* a plausible slip: an existing BasicAuth takes the flag even when it is empty
BindUsernameAlways(o, username) ==
  IF username # "" \/ o.BasicAuth # Nil
    THEN [o EXCEPT !.BasicAuth = [BasicOrNew(o) EXCEPT !.Username = username]]
    ELSE o

BindUsername(o, username) ==
  IF username # "" THEN [o EXCEPT !.BasicAuth = [BasicOrNew(o) EXCEPT !.Username = username]] ELSE o

BindPassword(o, password) ==
  IF password # "" THEN [o EXCEPT !.BasicAuth = [BasicOrNew(o) EXCEPT !.Password = password]] ELSE o

BindKeyPath(o, keyPath) ==
  IF keyPath # "" THEN [o EXCEPT !.SSHAuth = [SSHOrNew(o) EXCEPT !.PEMPath = keyPath]] ELSE o

BindKeyPhrase(o, keyPhrase) ==
  IF keyPhrase # "" THEN [o EXCEPT !.SSHAuth = [SSHOrNew(o) EXCEPT !.Passphrase = keyPhrase]] ELSE o

BindRmDotGit(o, rmDotGit) == [o EXCEPT !.RemoveDotGit = rmDotGit]

\* f.missing is the index in FlagNames of the first flag the FlagSet lacks, 0 if none
BindFlags(o, f) ==
  LET Fail(at, i) == [opts |-> at, err |-> FlagErr(FlagNames[i])]
      o1 == BindDirectory(o, f.directory)
      o2 == BindUsername(o1, f.username)
      o3 == BindPassword(o2, f.password)
      o4 == BindKeyPath(o3, f.keyPath)
      o5 == BindKeyPhrase(o4, f.keyPhrase)
      o6 == BindRmDotGit(o5, f.rmDotGit)
  IN  CASE f.missing = 1 -> Fail(o, 1)
        [] f.missing = 2 -> Fail(o1, 2)
        [] f.missing = 3 -> Fail(o2, 3)
        [] f.missing = 4 -> Fail(o3, 4)
        [] f.missing = 5 -> Fail(o4, 5)
        [] f.missing = 6 -> Fail(o5, 6)
        [] OTHER -> [opts |-> o6, err |-> NilErr]

(***************************************************************************)
(* Options.SetStorageMode, GetWorkTree, GetStorage                         *)
(***************************************************************************)
\* a plausible slip: the directory is required in "fs" mode only
SetStorageModeMemAnywhere(o, mode, env) ==
  IF mode = MemoryStorageMode
    THEN [opts |-> [o EXCEPT !.worktree = [kind |-> "memfs"],
                             !.storage = [kind |-> "memory"]],
          err |-> NilErr]
  ELSE IF o.Directory = ""
    THEN [opts |-> o, err |-> ErrorsNew("must initalize directory before setting storage mode")]
  ELSE IF mode = FileSystemStorageMode
    THEN IF env.absErr
           THEN [opts |-> o, err |-> ErrorsNew("invalid directory")]
         ELSE IF env.chrootErr
           THEN [opts |-> o, err |-> ErrorsNew("chroot")]
         ELSE [opts |-> [o EXCEPT !.worktree = [kind |-> "osfs", root |-> o.Directory],
                                  !.storage = [kind |-> "filesystem", dir |-> GitDirName]],
               err |-> NilErr]
  ELSE [opts |-> o, err |-> ErrorsNew("invalid storage mode")]

\* a plausible slip: the worktree is assigned before Chroot is known to succeed
SetStorageModeEarlyAssign(o, mode, env) ==
  IF o.Directory = ""
    THEN [opts |-> o, err |-> ErrorsNew("must initalize directory before setting storage mode")]
  ELSE IF mode = FileSystemStorageMode
    THEN IF env.absErr
           THEN [opts |-> o, err |-> ErrorsNew("invalid directory")]
         ELSE IF env.chrootErr
           THEN [opts |-> [o EXCEPT !.worktree = [kind |-> "osfs", root |-> o.Directory]],
                 err |-> ErrorsNew("chroot")]
         ELSE [opts |-> [o EXCEPT !.worktree = [kind |-> "osfs", root |-> o.Directory],
                                  !.storage = [kind |-> "filesystem", dir |-> GitDirName]],
               err |-> NilErr]
  ELSE IF mode = MemoryStorageMode
    THEN [opts |-> [o EXCEPT !.worktree = [kind |-> "memfs"],
                             !.storage = [kind |-> "memory"]],
          err |-> NilErr]
  ELSE [opts |-> o, err |-> ErrorsNew("invalid storage mode")]

\* env.absErr: filepath.Abs fails; env.chrootErr: wt.Chroot fails
SetStorageMode(o, mode, env) ==
  IF o.Directory = ""
    THEN [opts |-> o, err |-> ErrorsNew("must initalize directory before setting storage mode")]
  ELSE IF mode = FileSystemStorageMode
    THEN IF env.absErr
           THEN [opts |-> o, err |-> ErrorsNew("invalid directory")]
         ELSE IF env.chrootErr
           THEN [opts |-> o, err |-> ErrorsNew("chroot")]
         ELSE [opts |-> [o EXCEPT !.worktree = [kind |-> "osfs", root |-> o.Directory],
                                  !.storage = [kind |-> "filesystem", dir |-> GitDirName]],
               err |-> NilErr]
  ELSE IF mode = MemoryStorageMode
    THEN [opts |-> [o EXCEPT !.worktree = [kind |-> "memfs"],
                             !.storage = [kind |-> "memory"]],
          err |-> NilErr]
  ELSE [opts |-> o, err |-> ErrorsNew("invalid storage mode")]

GetWorkTree(o) == o.worktree

GetStorage(o) == o.storage

(***************************************************************************)
(* Options.Auth                                                            *)
(***************************************************************************)
RECURSIVE Split(_, _)
\* strings.Split(s, sep) for a one-character separator
Split(s, sep) ==
  IF \E i \in 1..Len(s) : s[i] = sep
    THEN LET i == CHOOSE k \in 1..Len(s) : s[k] = sep /\ \A j \in 1..(k - 1) : s[j] # sep
         IN  <<SubSeq(s, 1, i - 1)>> \o Split(SubSeq(s, i + 1, Len(s)), sep)
    ELSE <<s>>

\* url.Parse returns (nil, err) for a control character or a malformed
\* percent escape; every other colon-free piece parses
UrlParseFails(piece) ==
  \/ \E i \in 1..Len(piece) : Ord(piece[i]) < 32
  \/ \E i \in 1..Len(piece) :
       /\ piece[i] = "%"
       /\ ~(i + 2 <= Len(piece) /\ InHexClass(piece[i + 1]) /\ InHexClass(piece[i + 2]))

\* ssh.NewPublicKeysFromFile: keyOk says whether the key file can be read and decoded
NewPublicKeysFromFile(user, pemFile, password, keyOk) ==
  IF keyOk
    THEN [err |-> NilErr,
          method |-> [kind |-> "ssh.PublicKeys", user |-> user,
                      pemFile |-> pemFile, password |-> password],
          panic |-> FALSE]
    ELSE [err |-> ErrorsNew("ssh key"), method |-> NilMethod, panic |-> FALSE]

\* user := "git"
GitUser == <<"g", "i", "t">>

\* parsed is nil exactly when err != nil, so the body of the if dereferences nil
Panic == [err |-> NilErr, method |-> NilMethod, panic |-> TRUE]

Auth(o, keyOk) ==
  IF o.SSHAuth # Nil
    THEN LET pieces == Split(o.Repo, ":")
         IN  IF Len(pieces) = 2 /\ UrlParseFails(pieces[1])
               THEN Panic
               ELSE NewPublicKeysFromFile(GitUser, o.SSHAuth.PEMPath, o.SSHAuth.Passphrase, keyOk)
  ELSE IF o.BasicAuth # Nil
    THEN [err |-> NilErr,
          method |-> [kind |-> "http.BasicAuth", Username |-> o.BasicAuth.Username,
                      Password |-> o.BasicAuth.Password],
          panic |-> FALSE]
  ELSE [err |-> NilErr, method |-> NilMethod, panic |-> FALSE]

(***************************************************************************)
(* Inputs                                                                  *)
(***************************************************************************)
RepoSCP == <<"a", "@", "h", ":", "r">>
RepoBadEscape == <<"%", "z", ":", "r">>
RepoThreePieces == <<"s", ":", "a", "@", "h", ":", "r">>

RepoValues == {<<>>, RepoSCP, RepoBadEscape, RepoThreePieces}

ShaValid == WithAt(WithAt(Fill(ShaLen, "a"), 1, "0"), ShaLen, "F")

SHAValues == {<<>>, ShaValid, Fill(ShaLen + 1, "a"), WithAt(ShaValid, ShaLen, "g")}

\* argument lists of every length up to MaxArgs
ArgLists ==
  {<<>>} \cup {<<r>> : r \in {RepoSCP, ShaValid}}
         \cup {<<r, s>> : r \in RepoValues, s \in SHAValues}
         \cup {<<r, s>> \o Fill(n - 2, x) : r \in {RepoSCP}, s \in {ShaValid},
                                           x \in {<<"r">>, ShaValid}, n \in 3..MaxArgs}

\* flag sets: every combination of values when all six flags are defined; when
\* the flag at index m is the first one missing, the flags read before it are
\* all set or all left at their defaults, and the ones after it are never read
FlagSets ==
  [missing : {0}, directory : {"", "dir"}, username : {"", "user"},
   password : {"", "secret"}, keyPath : {"", "id_rsa"}, keyPhrase : {"", "phrase"},
   rmDotGit : BOOLEAN]
  \cup
  {[missing |-> m,
    directory |-> IF set /\ m > 1 THEN "dir" ELSE "",
    username |-> IF set /\ m > 2 THEN "user" ELSE "",
    password |-> IF set /\ m > 3 THEN "secret" ELSE "",
    keyPath |-> IF set /\ m > 4 THEN "id_rsa" ELSE "",
    keyPhrase |-> IF set /\ m > 5 THEN "phrase" ELSE "",
    rmDotGit |-> FALSE] : m \in 1..Len(FlagNames), set \in BOOLEAN}

StorageModes == {FileSystemStorageMode, MemoryStorageMode, "s3"}

StorageEnvs ==
  {[absErr |-> FALSE, chrootErr |-> FALSE],
   [absErr |-> TRUE, chrootErr |-> FALSE],
   [absErr |-> FALSE, chrootErr |-> TRUE]}

(***************************************************************************)
(* The state machine: one Options value and the calls made on it           *)
(***************************************************************************)
\* the zero value of Options
NewOptions ==
  [Repo |-> <<>>, SHA |-> <<>>, Directory |-> "", RemoveDotGit |-> FALSE,
   BasicAuth |-> Nil, SSHAuth |-> Nil, storage |-> Nil, worktree |-> Nil]

Init ==
  /\ opts = NewOptions
  /\ call = [op |-> "new"]
  /\ ret = Result(NilErr)
  /\ initialized = FALSE

DoBindArgs ==
  \E args \in ArgLists :
    LET r == BindArgs(opts, args)
    IN  /\ opts' = r.opts
        /\ call' = [op |-> "BindArgs", args |-> args]
        /\ ret' = Result(r.err)
        /\ UNCHANGED initialized

DoBindFlags ==
  \E f \in FlagSets :
    LET r == BindFlags(opts, f)
    IN  /\ opts' = r.opts
        /\ call' = [op |-> "BindFlags", flags |-> f]
        /\ ret' = Result(r.err)
        /\ UNCHANGED initialized

DoSetStorageMode ==
  \E mode \in StorageModes, env \in StorageEnvs :
    LET r == SetStorageMode(opts, mode, env)
    IN  /\ (mode # FileSystemStorageMode => env = [absErr |-> FALSE, chrootErr |-> FALSE])
        /\ opts' = r.opts
        /\ call' = [op |-> "SetStorageMode", mode |-> mode, env |-> env]
        /\ ret' = Result(r.err)
        /\ initialized' = (initialized \/ r.err = NilErr)

DoValidate ==
  /\ call' = [op |-> "Validate"]
  /\ ret' = Result(Validate(opts))
  /\ UNCHANGED <<opts, initialized>>

DoAuth ==
  \E keyOk \in BOOLEAN :
    /\ call' = [op |-> "Auth", keyOk |-> keyOk]
    /\ ret' = Auth(opts, keyOk)
    /\ UNCHANGED <<opts, initialized>>

Next == DoBindArgs \/ DoBindFlags \/ DoSetStorageMode \/ DoValidate \/ DoAuth

Spec == Init /\ [][Next]_vars

(***************************************************************************)
(* Validate as a function of an arbitrary Options value                    *)
(***************************************************************************)
Alphabet ==
  {"\n", "%", "/", "0", "1", "9", ":", "@", "A", "F", "G",
   "a", "f", "g", "h", "r", "s", "z"}

\* SHAs of the lengths around ShaLen with one arbitrary character at either end
WideSHAs ==
  {<<>>} \cup
  UNION {{WithAt(Fill(n, "a"), p, d) : p \in {1, n}, d \in Alphabet} :
         n \in {1, ShaLen - 1, ShaLen, ShaLen + 1}}

AnyOptions ==
  [Repo : {<<>>, RepoSCP},
   SHA : WideSHAs,
   Directory : {"", "dir"},
   RemoveDotGit : {FALSE},
   BasicAuth : {Nil, [Username |-> "user", Password |-> "secret"],
                [Username |-> "", Password |-> "secret"]},
   SSHAuth : {Nil, [PEMPath |-> "id_rsa", Passphrase |-> ""]},
   storage : {Nil, [kind |-> "memory"]},
   worktree : {Nil, [kind |-> "memfs"]}]

InitValidate ==
  /\ opts \in AnyOptions
  /\ (opts.storage = Nil <=> opts.worktree = Nil)
  /\ call = [op |-> "new"]
  /\ ret = Result(NilErr)
  /\ initialized = (opts.storage # Nil)

NextValidate == DoValidate

SpecValidate == InitValidate /\ [][NextValidate]_vars

(***************************************************************************)
(* Properties                                                              *)
(***************************************************************************)
HexDigits == {"0", "1", "9", "a", "f", "A", "F"}

\* exactly 40 characters, each a hexadecimal digit
IsFullSHA(s) == Len(s) = 40 /\ \A i \in 1..Len(s) : s[i] \in HexDigits

IsInvalid(err, key) == err.kind = "invalid" /\ err.key = key

IsError(err, msg) == err.kind = "error" /\ err.msg = msg

Flags == call.flags

\* C1: Validate returns nil only if Repo is non-empty and SHA is exactly 40
\* hexadecimal characters; an empty Repo gives the "repo" error, and a
\* non-empty Repo with any other SHA gives the "sha" error, whatever the
\* other fields hold.
C1_ValidateRepoAndSHA ==
  call.op = "Validate" =>
    /\ ret.err = NilErr => (opts.Repo # <<>> /\ IsFullSHA(opts.SHA))
    /\ opts.Repo = <<>> => IsInvalid(ret.err, "repo")
    /\ (opts.Repo # <<>> /\ ~IsFullSHA(opts.SHA)) => IsInvalid(ret.err, "sha")

\* a SHA of the right length with one non-hexadecimal character is refused,
\* although every later check passes
C1_Witness ==
  /\ call.op = "Validate"
  /\ Len(opts.SHA) = 40
  /\ opts.SHA[40] = "g"
  /\ opts.BasicAuth = Nil /\ opts.SSHAuth = Nil /\ opts.storage # Nil
  /\ IsInvalid(ret.err, "sha")

\* C2: Validate never returns nil while both BasicAuth and SSHAuth are
\* non-nil; a BindFlags call that supplies a basic-auth flag together with
\* an SSH flag leaves Options in a state that Validate rejects.
C2_AuthModesExclusive ==
  /\ (opts.BasicAuth # Nil /\ opts.SSHAuth # Nil) => Validate(opts) # NilErr
  /\ call.op = "Validate" /\ ret.err = NilErr => (opts.BasicAuth = Nil \/ opts.SSHAuth = Nil)
  /\ (/\ call.op = "BindFlags"
      /\ (Flags.username # "" \/ Flags.password # "")
      /\ (Flags.keyPath # "" \/ Flags.keyPhrase # ""))
     => Validate(opts) # NilErr

\* both kinds of flags were bound in one call and that alone is what
\* Validate objects to
C2_Witness ==
  /\ call.op = "BindFlags"
  /\ Flags.username # "" /\ Flags.password # "" /\ Flags.keyPath # ""
  /\ ret.err = NilErr
  /\ IsError(Validate(opts), "cannot specify both basic auth and ssh auth options")

\* the checks Validate makes before it looks at the credentials' fields
EarlierChecksPass(o) == o.Repo # <<>> /\ IsFullSHA(o.SHA)

C4_AuthResolvesMode ==
  (call.op = "Auth" /\ Validate(opts) = NilErr) =>
    /\ ~ret.panic
    /\ opts.SSHAuth # Nil =>
         \/ ret.err # NilErr /\ ret.method = NilMethod
         \/ /\ ret.err = NilErr
            /\ ret.method.kind = "ssh.PublicKeys"
            /\ ret.method.pemFile = opts.SSHAuth.PEMPath
            /\ ret.method.password = opts.SSHAuth.Passphrase
    /\ (opts.SSHAuth = Nil /\ opts.BasicAuth # Nil) =>
         /\ ret.err = NilErr
         /\ ret.method.kind = "http.BasicAuth"
         /\ ret.method.Password = opts.BasicAuth.Password
    /\ (opts.SSHAuth = Nil /\ opts.BasicAuth = Nil) =>
         (ret.err = NilErr /\ ret.method = NilMethod)

\* C5: Validate returns nil only if an earlier SetStorageMode call returned
\* nil; SetStorageMode returns an error for every mode when Directory is
\* empty at the time of the call; while no SetStorageMode call has
\* succeeded, Validate returns the "filesystem storage not initalized"
\* error when all other checks pass.
C5_StorageBeforeValidate ==
  /\ [](Validate(opts) = NilErr => initialized)
  /\ [](call.op = "Validate" /\ ret.err = NilErr => initialized)
  /\ [][(call'.op = "SetStorageMode" /\ opts.Directory = "") =>
          IsError(ret'.err, "must initalize directory before setting storage mode")]_vars
  /\ []((/\ ~initialized
         /\ EarlierChecksPass(opts)
         /\ opts.BasicAuth = Nil \/ opts.SSHAuth = Nil
         /\ opts.BasicAuth # Nil =>
              (opts.BasicAuth.Username # "" /\ opts.BasicAuth.Password # "")
         /\ opts.SSHAuth # Nil => opts.SSHAuth.PEMPath # "")
        => IsError(Validate(opts), "filesystem storage not initalized"))

\* SetStorageMode("mem") was refused for want of a directory, and Validate
\* then finds nothing wrong but the storage
C5_Witness ==
  /\ call.op = "Validate"
  /\ ~initialized
  /\ opts.SSHAuth # Nil
  /\ IsError(ret.err, "filesystem storage not initalized")

\* C6: when only BasicAuth is set, the credential Auth returns has the
\* username "token" if BasicAuth.Username is empty and BasicAuth.Username
\* otherwise, so never an empty one.
C6_BasicAuthUsernameNeverEmpty ==
  (call.op = "Auth" /\ opts.BasicAuth # Nil /\ opts.SSHAuth = Nil) =>
    /\ ret.method.kind = "http.BasicAuth"
    /\ ret.method.Username # ""
    /\ ret.method.Username =
         IF opts.BasicAuth.Username = "" THEN "token" ELSE opts.BasicAuth.Username

\* the user a piece of the form user@host names, <<>> if it names none
NamedUser(piece) ==
  IF \E i \in 1..Len(piece) : piece[i] = "@"
    THEN SubSeq(piece, 1, (CHOOSE i \in 1..Len(piece) :
                             piece[i] = "@" /\ \A j \in 1..(i - 1) : piece[j] # "@") - 1)
    ELSE <<>>

\* the SSH user the claim expects for a repository URL
ExpectedSSHUser(repo) ==
  LET pieces == Split(repo, ":")
  IN  IF Len(pieces) = 2 /\ NamedUser(pieces[1]) # <<>>
        THEN NamedUser(pieces[1])
        ELSE <<"g", "i", "t">>

\* C7: when SSHAuth is non-nil, Auth builds the SSH credential for user
\* "git" by default and for the user named in Repo when Repo splits on ":"
\* into exactly two pieces whose first names a user; for every Repo it
\* returns normally.
C7_SSHUserFromRepo ==
  (call.op = "Auth" /\ opts.SSHAuth # Nil) =>
    /\ ~ret.panic
    /\ ret.err = NilErr => ret.method.user = ExpectedSSHUser(opts.Repo)

\* C8: BindArgs with exactly two arguments returns nil and sets Repo to the
\* first and SHA to the second; with any other number it returns the
\* "missing arguments" error and leaves every field of Options unchanged.
C8_BindArgsExactlyTwo ==
  [][call'.op = "BindArgs" =>
       IF Len(call'.args) = 2
         THEN /\ ret'.err = NilErr
              /\ opts' = [opts EXCEPT !.Repo = call'.args[1], !.SHA = call'.args[2]]
         ELSE /\ IsError(ret'.err, "missing arguments: must specify both repo and sha arguments")
              /\ opts' = opts]_vars

\* three arguments were refused and the Repo bound earlier is still there
C8_Witness ==
  /\ call.op = "BindArgs"
  /\ Len(call.args) = 3
  /\ ret.err # NilErr
  /\ opts.Repo = RepoBadEscape

\* the value of a credential's field, "" while the credential is nil
Field(cred, name) == IF cred = Nil THEN "" ELSE cred[name]

\* a BindFlags step keeps the field of every empty flag and, when it succeeds,
\* overwrites Directory and RemoveDotGit
C9_EmptyFlagKeeps ==
  call'.op = "BindFlags" =>
          /\ call'.flags.username = "" =>
               Field(opts'.BasicAuth, "Username") = Field(opts.BasicAuth, "Username")
          /\ call'.flags.password = "" =>
               Field(opts'.BasicAuth, "Password") = Field(opts.BasicAuth, "Password")
          /\ call'.flags.keyPath = "" =>
               Field(opts'.SSHAuth, "PEMPath") = Field(opts.SSHAuth, "PEMPath")
          /\ call'.flags.keyPhrase = "" =>
               Field(opts'.SSHAuth, "Passphrase") = Field(opts.SSHAuth, "Passphrase")
          /\ ret'.err = NilErr =>
               /\ opts'.Directory = call'.flags.directory
               /\ opts'.RemoveDotGit = call'.flags.rmDotGit

\* a step keeps a bound credential bound
C9_StaysBound ==
  /\ opts.BasicAuth # Nil => opts'.BasicAuth # Nil
  /\ opts.SSHAuth # Nil => opts'.SSHAuth # Nil

\* with both credentials bound, Validate fails
C9_BothBoundRejected ==
  (opts.BasicAuth # Nil /\ opts.SSHAuth # Nil) =>
    (Validate(opts) # NilErr /\ (call.op = "Validate" => ret.err # NilErr))

\* C9: an empty username, password, key-path or key-passphrase flag leaves
\* the field bound earlier unchanged; a non-nil BasicAuth or SSHAuth stays
\* non-nil; once both are non-nil every later Validate returns an error;
\* every successful BindFlags call overwrites Directory and RemoveDotGit.
C9_BindFlagsNeverClears ==
  /\ [][C9_EmptyFlagKeeps /\ C9_StaysBound]_vars
  /\ []C9_BothBoundRejected

\* basic-auth flags were bound by an earlier call, this call binds only SSH
\* flags, and the basic-auth fields are still there
C9_Witness ==
  /\ call.op = "BindFlags"
  /\ Flags.username = "" /\ Flags.password = "" /\ Flags.keyPath # ""
  /\ Flags.directory = "" /\ opts.Directory = ""
  /\ opts.BasicAuth # Nil /\ opts.BasicAuth.Username # ""
  /\ opts.SSHAuth # Nil

\* C10: GetWorkTree() is nil exactly when GetStorage() is nil; a
\* SetStorageMode call that returns an error (empty Directory, unknown
\* mode, failing directory resolution in "fs" mode) leaves both as they
\* were; one that returns nil leaves both non-nil; no other operation
\* changes either.
C10_WorktreeAndStorageTogether ==
  /\ [](GetWorkTree(opts) = Nil <=> GetStorage(opts) = Nil)
  /\ [][call'.op = "SetStorageMode" =>
          /\ (\/ opts.Directory = ""
              \/ call'.mode \notin {"fs", "mem"}
              \/ call'.mode = "fs" /\ (call'.env.absErr \/ call'.env.chrootErr))
             => ret'.err # NilErr
          /\ ret'.err # NilErr =>
               /\ GetWorkTree(opts') = GetWorkTree(opts)
               /\ GetStorage(opts') = GetStorage(opts)
          /\ ret'.err = NilErr =>
               (GetWorkTree(opts') # Nil /\ GetStorage(opts') # Nil)]_vars
  /\ [][call'.op # "SetStorageMode" =>
          /\ GetWorkTree(opts') = GetWorkTree(opts)
          /\ GetStorage(opts') = GetStorage(opts)]_vars

\* a directory resolution failed in "fs" mode and the in-memory storage set
\* up earlier is still in place
C10_Witness ==
  /\ call.op = "SetStorageMode"
  /\ call.mode = "fs" /\ call.env.chrootErr
  /\ ret.err # NilErr
  /\ GetWorkTree(opts) = [kind |-> "memfs"]
  /\ GetStorage(opts) = [kind |-> "memory"]

====
